---- MODULE Spec2Model ----
(***************************************************************************)
(* Model of TemplateForecaster (src/main.py): the research pass            *)
(* run_research behind the class-level asyncio.Semaphore, the key-factor   *)
(* extraction from the model's reply, the sequential searches with the     *)
(* pacing delay, and the forecast call that follows a research pass.       *)
(*                                                                         *)
(* Text is a sequence of one-character strings, so that str.split and      *)
(* str.strip are computed character by character.                          *)
(***************************************************************************)
EXTENDS Integers, Sequences, FiniteSets, TLC

\* ------------------------------------------------------------------ bounds

\* Number of questions whose run_research is launched concurrently.
NumTasks == 3

\* Longest reply, in lines, drawn for the key-factor extractor.
MaxLines == 6

\* ------------------------------------------------------- program constants

\* _max_concurrent_questions
MaxConcurrentQuestions == 2

\* key_factors_response.split("\n")[:5]
FactorSlice == 5

Tasks == 1..NumTasks

Min(a, b) == IF a <= b THEN a ELSE b

\* -------------------------------------------------------------------- text

NL == "\n"

DELIM == <<":", "=", ">">>

\* Characters str.strip() removes when called without arguments.
Whitespace == {" ", "\t", "\n", "\r"}

\* s[i:].startswith(sep)
StartsWithAt(s, sep, i) ==
    /\ i + Len(sep) - 1 <= Len(s)
    /\ \A k \in 1..Len(sep) : s[i + k - 1] = sep[k]

\* str.split(sep): left to right, non-overlapping, always at least one piece.
RECURSIVE SplitFrom(_, _, _, _)
SplitFrom(s, sep, cur, i) ==
    IF i > Len(s) THEN <<cur>>
    ELSE IF StartsWithAt(s, sep, i)
         THEN <<cur>> \o SplitFrom(s, sep, <<>>, i + Len(sep))
         ELSE SplitFrom(s, sep, Append(cur, s[i]), i + 1)

Split(s, sep) == SplitFrom(s, sep, <<>>, 1)

RECURSIVE LStrip(_)
LStrip(s) ==
    IF s # <<>> /\ Head(s) \in Whitespace THEN LStrip(Tail(s)) ELSE s

RECURSIVE RStrip(_)
RStrip(s) ==
    IF s # <<>> /\ s[Len(s)] \in Whitespace
    THEN RStrip(SubSeq(s, 1, Len(s) - 1))
    ELSE s

\* str.strip()
Strip(s) == RStrip(LStrip(s))

\* seq[:n]
SliceFirst(seq, n) == SubSeq(seq, 1, Min(n, Len(seq)))

\* seq[-1]
LastOf(seq) == seq[Len(seq)]

\* A slice one element too long.
SelectLinesSix(lines) == SliceFirst(lines, FactorSlice + 1)

\* key_factors_response.split("\n")[:5] applied to the split lines.
SelectLines(lines) == SliceFirst(lines, FactorSlice)

\* key_factors[i].split(":=>")[-1].strip()
CleanFactor(line) == Strip(LastOf(Split(line, DELIM)))

\* for i in range(len(key_factors)): key_factors[i] = ...
RECURSIVE CleanAll(_)
CleanAll(lines) ==
    IF lines = <<>> THEN <<>>
    ELSE <<CleanFactor(Head(lines))>> \o CleanAll(Tail(lines))

\* The key factors run_research derives from the model's reply.
ExtractKeyFactors(reply) == CleanAll(SelectLines(Split(reply, <<NL>>)))

\* ------------------------------------------------------- replies (inputs)

\* Lines a reply is assembled from, each with what it is: "wf" a well-formed
\* `Label :=> query` line and its query, "plain" a line without the delimiter
\* and the line trimmed, "multi" a line holding the delimiter twice.
LinePool ==
    << [text  |-> <<"A", " ", ":", "=", ">", " ", "x", " ", "y">>,
        kind  |-> "wf",
        query |-> <<"x", " ", "y">>],
       [text  |-> <<"B", ":", "=", ">", "z">>,
        kind  |-> "wf",
        query |-> <<"z">>],
       [text  |-> <<" ", "p", " ", "q", "\t">>,
        kind  |-> "plain",
        query |-> <<"p", " ", "q">>],
       [text  |-> <<>>,
        kind  |-> "plain",
        query |-> <<>>],
       [text  |-> <<"C", ":", "=", ">", "u", ":", "=", ">", "v", " ">>,
        kind  |-> "multi",
        query |-> <<"v">>] >>

PoolIds == 1..Len(LinePool)

RECURSIVE SeqsUpTo(_, _)
SeqsUpTo(S, n) ==
    IF n = 0 THEN {<<>>}
    ELSE LET shorter == SeqsUpTo(S, n - 1)
         IN  shorter \cup {Append(q, x) : q \in {r \in shorter : Len(r) = n - 1}, x \in S}

\* "\n".join(lines)
RECURSIVE JoinLines(_)
JoinLines(ids) ==
    IF Len(ids) = 0 THEN <<>>
    ELSE IF Len(ids) = 1 THEN LinePool[ids[1]].text
    ELSE LinePool[ids[1]].text \o <<NL>> \o JoinLines(Tail(ids))

\* Replies drawn for the extractor: one to MaxLines lines of the pool.
ReplyShapes == SeqsUpTo(PoolIds, MaxLines) \ {<<>>}

\* --------------------------------------------------------------- state

VARIABLES
    scenario,          \* which replies the key-factor model may give
    creds,             \* ASKNEWS_CLIENT_ID and ASKNEWS_SECRET are both set
    sem,               \* _concurrency_limiter: value, waiters, waiter futures
    must_cancel,       \* a cancellation is pending for a task already woken
    blocked_by,        \* the task whose time.sleep holds the event loop, or 0
    pc,                \* where each question's pipeline stands
    acquired,          \* times acquire() returned to the task
    released,          \* times release() ran for the task
    given,             \* the lines the key-factor reply was assembled from
    response,          \* key_factors_response
    key_factors,       \* key_factors
    idx,               \* position of the factor loop
    general_research,  \* general_research, unbound until assigned
    research,          \* research, unbound until assigned
    inflight,          \* searches issued and not yet completed (0: general)
    searchlog,         \* queries handed to the search provider, in order
    outcome,           \* how run_research ended
    brief,             \* full_research as returned
    factor_ok,         \* per factor searched so far, whether its search returned
    fc                 \* one call of a _run_forecast_on_* method

vars == << scenario, creds, sem, must_cancel, blocked_by, pc, acquired,
           released, given, response, key_factors, idx, general_research,
           research, inflight, searchlog, outcome, brief, factor_ok, fc >>

\* No forecast call is under way.
NoCall == [pc |-> "idle"]

Unbound == [bound |-> FALSE, text |-> <<>>]

Bound(txt) == [bound |-> TRUE, text |-> txt]

\* question.question_text
QuestionText(t) == <<"Q", ToString(t)>>

\* What AskNewsSearcher().get_formatted_news_async(query) returns.
News(query) == <<"[">> \o query \o <<"]">>

\* f"Research on '{factor}':\n{factor_research}\n\n"
FactorBlock(factor, factor_research) ==
    <<"R", "'">> \o factor \o <<"'", ":", NL>> \o factor_research \o <<NL, NL>>

\* The fixed text of full_research before and after {general_research}.
Preamble(t) == <<"H", ToString(t), NL>>

Transition == <<NL, "T", NL>>

\* full_research
FullResearch(t, general, res) == Preamble(t) \o general \o Transition \o res

\* sub in s
Contains(s, sub) == \E i \in 1..(Len(s) + 1) : StartsWithAt(s, sub, i)

\* Replies the key-factor model may give in each scenario.
ConcurrentShapes == {<<3, 1>>}

GateShapes == {<<2>>}

SoloShapes ==
    {<<2>>, <<1, 3>>, <<3, 1, 2>>, <<1, 2, 1, 2>>, <<1, 2, 1, 2, 1>>,
     <<3, 1, 2, 1, 2, 1>>}

Shapes ==
    CASE scenario = "concurrent" -> ConcurrentShapes
      [] scenario = "gate"       -> GateShapes
      [] scenario = "solo"       -> SoloShapes
      [] OTHER                   -> ReplyShapes

\* The replies of the pipeline scenarios and the key factors run_research
\* extracts from each, computed once.
PipelineShapes == ConcurrentShapes \cup GateShapes \cup SoloShapes

Replies ==
    {[shape       |-> ids,
      response    |-> JoinLines(ids),
      key_factors |-> ExtractKeyFactors(JoinLines(ids))] : ids \in PipelineShapes}

ReplyFor(ids) == CHOOSE r \in Replies : r.shape = ids

\* ----------------------------------------------------- asyncio.Semaphore

Remove(seq, x) == SelectSeq(seq, LAMBDA y : y # x)

\* Semaphore.locked() that looks at the waiters only.
LockedWaitersOnly(s) == \E i \in 1..Len(s.waiters) : s.fut[s.waiters[i]] # "cancelled"

\* Semaphore.locked()
Locked(s) ==
    \/ s.value = 0
    \/ \E i \in 1..Len(s.waiters) : s.fut[s.waiters[i]] # "cancelled"

\* A wake-up that wakes nobody.
WakeUpNobody(s) == s

\* Semaphore._wake_up_next(): the first waiter whose future is not done.
WakeUpNext(s) ==
    LET pending == {i \in 1..Len(s.waiters) : s.fut[s.waiters[i]] = "pending"}
    IN  IF pending = {} THEN s
        ELSE LET first == CHOOSE i \in pending : \A j \in pending : i <= j
             IN  [s EXCEPT !.value = @ - 1, !.fut[s.waiters[first]] = "result"]

\* Semaphore.release()
SemRelease(s) == WakeUpNext([s EXCEPT !.value = @ + 1])

LoopFree == blocked_by = 0

Guarded == {"kf_invoke", "general_search", "factor_search", "sleeping"}

Inside(t) == pc[t] \in Guarded

\* ------------------------------------------------------------ run_research

\* Leaving the `async with` block that skips __aexit__ when the body raised.
ExitWithLeak(t, how, text) ==
    /\ sem' = IF how = "brief" THEN SemRelease(sem) ELSE sem
    /\ released' = [released EXCEPT ![t] = IF how = "brief" THEN @ + 1 ELSE @]
    /\ pc' = [pc EXCEPT ![t] = IF how = "brief" THEN "research_done" ELSE "failed"]
    /\ outcome' = [outcome EXCEPT ![t] = how]
    /\ brief' = [brief EXCEPT ![t] = text]
    /\ inflight' = [inflight EXCEPT ![t] = {}]

\* Leaving the `async with` block, by return or by an exception: __aexit__
\* releases the semaphore, then the result or the exception reaches the caller.
ExitWith(t, how, text) ==
    /\ sem' = SemRelease(sem)
    /\ released' = [released EXCEPT ![t] = @ + 1]
    /\ pc' = [pc EXCEPT ![t] = IF how = "brief" THEN "research_done" ELSE "failed"]
    /\ outcome' = [outcome EXCEPT ![t] = how]
    /\ brief' = [brief EXCEPT ![t] = text]
    /\ inflight' = [inflight EXCEPT ![t] = {}]

\* The f-string of full_research reads general_research and research; reading
\* a local that was never assigned raises UnboundLocalError.
BuildAndReturn(t, general, res) ==
    IF general.bound /\ res.bound
    THEN ExitWith(t, "brief", FullResearch(t, general.text, res.text))
    ELSE ExitWith(t, "UnboundLocalError", <<>>)

\* run_research is called: `async with` awaits acquire(). When the semaphore is
\* not locked the task goes on to the key-factor model call, its first await;
\* otherwise it queues a future and suspends.
Start(t) ==
    /\ LoopFree
    /\ pc[t] = "init"
    /\ IF ~Locked(sem)
       THEN /\ sem' = [sem EXCEPT !.value = @ - 1]
            /\ acquired' = [acquired EXCEPT ![t] = @ + 1]
            /\ pc' = [pc EXCEPT ![t] = "kf_invoke"]
       ELSE /\ sem' = [sem EXCEPT !.waiters = Append(@, t), !.fut[t] = "pending"]
            /\ pc' = [pc EXCEPT ![t] = "acquiring"]
            /\ UNCHANGED acquired
    /\ UNCHANGED << fc, factor_ok, scenario, creds, must_cancel, blocked_by, released, given,
                    response, key_factors, idx, general_research, research,
                    inflight, searchlog, outcome, brief >>

\* The waiter's future is done and the task runs again inside acquire().
ResumeAcquire(t) ==
    /\ LoopFree
    /\ pc[t] = "acquiring"
    /\ sem.fut[t] # "pending"
    /\ LET left == [sem EXCEPT !.waiters = Remove(@, t), !.fut[t] = "none"]
       IN  IF sem.fut[t] = "cancelled"
           THEN /\ sem' = left
                /\ pc' = [pc EXCEPT ![t] = "failed"]
                /\ outcome' = [outcome EXCEPT ![t] = "CancelledError"]
                /\ UNCHANGED acquired
           ELSE IF must_cancel[t]
           THEN /\ sem' = WakeUpNext([left EXCEPT !.value = @ + 1])
                /\ pc' = [pc EXCEPT ![t] = "failed"]
                /\ outcome' = [outcome EXCEPT ![t] = "CancelledError"]
                /\ UNCHANGED acquired
           ELSE /\ sem' = IF left.value > 0 THEN WakeUpNext(left) ELSE left
                /\ pc' = [pc EXCEPT ![t] = "kf_invoke"]
                /\ acquired' = [acquired EXCEPT ![t] = @ + 1]
                /\ UNCHANGED outcome
    /\ must_cancel' = [must_cancel EXCEPT ![t] = FALSE]
    /\ UNCHANGED << fc, factor_ok, scenario, creds, blocked_by, released, given, response,
                    key_factors, idx, general_research, research, inflight,
                    searchlog, brief >>

\* The orchestrator cancels a task that waits in acquire(): a pending future
\* is cancelled; a future already given its result leaves the cancellation
\* to be thrown when the task runs.
CancelWaiting(t) ==
    /\ LoopFree
    /\ pc[t] = "acquiring"
    /\ ~must_cancel[t]
    /\ sem.fut[t] \in {"pending", "result"}
    /\ IF sem.fut[t] = "pending"
       THEN /\ sem' = [sem EXCEPT !.fut[t] = "cancelled"]
            /\ UNCHANGED must_cancel
       ELSE /\ must_cancel' = [must_cancel EXCEPT ![t] = TRUE]
            /\ UNCHANGED sem
    /\ UNCHANGED << fc, factor_ok, scenario, creds, blocked_by, pc, acquired, released, given,
                    response, key_factors, idx, general_research, research,
                    inflight, searchlog, outcome, brief >>

\* The orchestrator cancels a task suspended in the guarded body, at the model
\* call or at a search: CancelledError is no Exception, so the factor loop's
\* handler lets it pass and the block is left.
CancelInside(t) ==
    /\ LoopFree
    /\ pc[t] \in {"kf_invoke", "general_search", "factor_search"}
    /\ ExitWith(t, "CancelledError", <<>>)
    /\ UNCHANGED << fc, factor_ok, scenario, creds, must_cancel, blocked_by, acquired, given,
                    response, key_factors, idx, general_research, research,
                    searchlog >>

\* The key-factor model call returns: the factors are extracted, then either
\* the general search is issued or, without credentials, the brief is built.
KfReturn(t, ids) ==
    /\ LoopFree
    /\ pc[t] = "kf_invoke"
    /\ given' = [given EXCEPT ![t] = ids]
    /\ response' = [response EXCEPT ![t] = ReplyFor(ids).response]
    /\ key_factors' = [key_factors EXCEPT ![t] = ReplyFor(ids).key_factors]
    /\ IF creds
       THEN /\ pc' = [pc EXCEPT ![t] = "general_search"]
            /\ searchlog' = [searchlog EXCEPT ![t] = Append(@, QuestionText(t))]
            /\ inflight' = [inflight EXCEPT ![t] = @ \cup {0}]
            /\ UNCHANGED << sem, released, outcome, brief >>
       ELSE /\ BuildAndReturn(t, general_research[t], research[t])
            /\ UNCHANGED searchlog
    /\ UNCHANGED << fc, factor_ok, scenario, creds, must_cancel, blocked_by, acquired, idx,
                    general_research, research >>

\* The model call's failure is swallowed and a one-line reply stands in.
KfFailAbsorbed(t) == KfReturn(t, <<2>>)

\* The key-factor model call fails.
KfFail(t) ==
    /\ LoopFree
    /\ pc[t] = "kf_invoke"
    /\ ExitWith(t, "LlmError", <<>>)
    /\ UNCHANGED << fc, factor_ok, scenario, creds, must_cancel, blocked_by, acquired, given,
                    response, key_factors, idx, general_research, research,
                    searchlog >>

\* All remaining factor searches are started together.
IssueAll(t, i, after) ==
    /\ pc' = [pc EXCEPT ![t] = "factor_search"]
    /\ idx' = [idx EXCEPT ![t] = i]
    /\ searchlog' = [searchlog EXCEPT ![t] =
                        @ \o SubSeq(key_factors[t], i, Len(key_factors[t]))]
    /\ inflight' = [inflight EXCEPT ![t] = after \cup (i..Len(key_factors[t]))]

\* await AskNewsSearcher().get_formatted_news_async(factor) for factor i.
IssueNext(t, i, after) ==
    /\ pc' = [pc EXCEPT ![t] = "factor_search"]
    /\ idx' = [idx EXCEPT ![t] = i]
    /\ searchlog' = [searchlog EXCEPT ![t] = Append(@, key_factors[t][i])]
    /\ inflight' = [inflight EXCEPT ![t] = after \cup {i}]

\* `for factor in key_factors`: the next factor's search, or past the loop
\* the brief is built and returned.
LoopStep(t, i, after, general, res) ==
    IF i <= Len(key_factors[t])
    THEN /\ IssueNext(t, i, after)
         /\ UNCHANGED << sem, released, outcome, brief >>
    ELSE /\ BuildAndReturn(t, general, res)
         /\ UNCHANGED << idx, searchlog >>

\* The general search returns; research starts empty and the loop begins.
GeneralReturn(t) ==
    /\ LoopFree
    /\ pc[t] = "general_search"
    /\ general_research' =
           [general_research EXCEPT ![t] = Bound(News(QuestionText(t)))]
    /\ research' = [research EXCEPT ![t] = Bound(<<>>)]
    /\ LoopStep(t, 1, inflight[t] \ {0}, Bound(News(QuestionText(t))), Bound(<<>>))
    /\ UNCHANGED << fc, factor_ok, scenario, creds, must_cancel, blocked_by, acquired, given,
                    response, key_factors >>

\* The general search's failure is swallowed like a factor's.
GeneralFailAbsorbed(t) ==
    /\ LoopFree
    /\ pc[t] = "general_search"
    /\ general_research' = [general_research EXCEPT ![t] = Bound(<<>>)]
    /\ research' = [research EXCEPT ![t] = Bound(<<>>)]
    /\ LoopStep(t, 1, inflight[t] \ {0}, Bound(<<>>), Bound(<<>>))
    /\ UNCHANGED << fc, factor_ok, scenario, creds, must_cancel, blocked_by,
                    acquired, given, response, key_factors >>

\* The general search fails: nothing handles it.
GeneralFail(t) ==
    /\ LoopFree
    /\ pc[t] = "general_search"
    /\ ExitWith(t, "SearchError", <<>>)
    /\ UNCHANGED << fc, factor_ok, scenario, creds, must_cancel, blocked_by, acquired, given,
                    response, key_factors, idx, general_research, research,
                    searchlog >>

\* A factor search returns: its block is appended, then time.sleep(1) runs
\* on the event loop's thread.
FactorReturn(t) ==
    /\ LoopFree
    /\ pc[t] = "factor_search"
    /\ research' = [research EXCEPT ![t] =
                       Bound(@.text \o FactorBlock(key_factors[t][idx[t]],
                                                   News(key_factors[t][idx[t]])))]
    /\ inflight' = [inflight EXCEPT ![t] = @ \ {idx[t]}]
    /\ pc' = [pc EXCEPT ![t] = "sleeping"]
    /\ blocked_by' = t
    /\ factor_ok' = [factor_ok EXCEPT ![t] = Append(@, TRUE)]
    /\ UNCHANGED << fc, scenario, creds, sem, must_cancel, acquired, released, given,
                    response, key_factors, idx, general_research, searchlog,
                    outcome, brief >>

\* A factor search fails and no handler stands around it.
FactorFailPropagates(t) ==
    /\ LoopFree
    /\ pc[t] = "factor_search"
    /\ ExitWith(t, "SearchError", <<>>)
    /\ UNCHANGED << fc, factor_ok, scenario, creds, must_cancel, blocked_by, acquired, given,
                    response, key_factors, idx, general_research, research,
                    searchlog >>

\* The handler records an empty block for the factor whose search failed.
FactorFailAddsBlock(t) ==
    /\ LoopFree
    /\ pc[t] = "factor_search"
    /\ research' = [research EXCEPT ![t] =
                       Bound(@.text \o FactorBlock(key_factors[t][idx[t]], <<>>))]
    /\ inflight' = [inflight EXCEPT ![t] = @ \ {idx[t]}]
    /\ pc' = [pc EXCEPT ![t] = "sleeping"]
    /\ blocked_by' = t
    /\ factor_ok' = [factor_ok EXCEPT ![t] = Append(@, FALSE)]
    /\ UNCHANGED << fc, scenario, creds, sem, must_cancel, acquired, released,
                    given, response, key_factors, idx, general_research,
                    searchlog, outcome, brief >>

\* A factor search fails: the handler logs a warning, then time.sleep(1) runs.
FactorFail(t) ==
    /\ LoopFree
    /\ pc[t] = "factor_search"
    /\ inflight' = [inflight EXCEPT ![t] = @ \ {idx[t]}]
    /\ pc' = [pc EXCEPT ![t] = "sleeping"]
    /\ blocked_by' = t
    /\ factor_ok' = [factor_ok EXCEPT ![t] = Append(@, FALSE)]
    /\ UNCHANGED << fc, scenario, creds, sem, must_cancel, acquired, released, given,
                    response, key_factors, idx, general_research, research,
                    searchlog, outcome, brief >>

\* time.sleep(1) returns and the loop goes on.
SleepReturn(t) ==
    /\ blocked_by = t
    /\ pc[t] = "sleeping"
    /\ blocked_by' = 0
    /\ LoopStep(t, idx[t] + 1, inflight[t], general_research[t], research[t])
    /\ UNCHANGED << fc, factor_ok, scenario, creds, must_cancel, acquired, given, response,
                    key_factors, general_research, research >>

\* ---------------------------------------------------------------- forecast

\* The orchestrator calls _run_forecast_on_* with the brief: the prompt is
\* built and the reasoning model invoked; no semaphore is taken.
StartForecast(t) ==
    /\ LoopFree
    /\ pc[t] = "research_done"
    /\ pc' = [pc EXCEPT ![t] = "forecast_invoke"]
    /\ UNCHANGED << fc, factor_ok, scenario, creds, sem, must_cancel, blocked_by, acquired,
                    released, given, response, key_factors, idx,
                    general_research, research, inflight, searchlog, outcome,
                    brief >>

\* The reasoning model's call ends, with a reply or with a failure.
ForecastEnd(t, ok) ==
    /\ LoopFree
    /\ pc[t] = "forecast_invoke"
    /\ pc' = [pc EXCEPT ![t] = IF ok THEN "done" ELSE "forecast_failed"]
    /\ UNCHANGED << fc, factor_ok, scenario, creds, sem, must_cancel, blocked_by, acquired,
                    released, given, response, key_factors, idx,
                    general_research, research, inflight, searchlog, outcome,
                    brief >>

\* ------------------------------------------- forecast strategies, one call

\* Everything a forecast call leaves alone.
research_vars ==
    << scenario, creds, sem, must_cancel, blocked_by, pc, acquired, released,
       given, response, key_factors, idx, general_research, research, inflight,
       searchlog, outcome, brief, factor_ok >>

\* Closed bounds a numeric question may carry.
BoundValues == {0, 10, 1000, 5000}

\* The questions a strategy is called with: a binary one, a multiple-choice
\* one, and numeric ones with every combination of open and closed bounds.
Questions ==
    {[kind |-> k, open_lower_bound |-> TRUE, open_upper_bound |-> TRUE,
      lower_bound |-> 0, upper_bound |-> 0] : k \in {"binary", "multiple_choice"}}
    \cup
    {[kind |-> "numeric", open_lower_bound |-> ol, open_upper_bound |-> ou,
      lower_bound |-> b[1], upper_bound |-> b[2]] :
        ol \in BOOLEAN, ou \in BOOLEAN,
        b \in {c \in BoundValues \X BoundValues : c[1] < c[2]}}

\* Replies of the reasoning model and what PredictionExtractor makes of each:
\* a value, or a failure when the structured tail is missing or malformed.
\* Probabilities are in hundredths.
ForecastReplies(kind) ==
    CASE kind = "binary" ->
           << [text |-> <<"..", "Probability: 63%">>, ok |-> TRUE, value |-> <<63>>],
              [text |-> <<"..", "Probability: 150%">>, ok |-> TRUE, value |-> <<100>>],
              [text |-> <<"..", "no percentage">>, ok |-> FALSE, value |-> <<>>] >>
      [] kind = "multiple_choice" ->
           << [text |-> <<"..", "A: 50 %", "B: 30 %", "C: 20 %">>, ok |-> TRUE,
               value |-> <<50, 30, 20>>],
              [text |-> <<"..", "A: 50 %", "C: 20 %">>, ok |-> FALSE, value |-> <<>>],
              [text |-> <<"..", "A: 50 %", "X: 30 %", "C: 20 %">>, ok |-> FALSE,
               value |-> <<>>] >>
      [] OTHER ->
           << [text |-> <<"..", "10: 5", "20: 10", "40: 20", "60: 30", "80: 50", "90: 80">>,
               ok |-> TRUE, value |-> <<5, 10, 20, 30, 50, 80>>],
              [text |-> <<"..", "10: 5", "20: 4", "40: 20", "60: 30", "80: 50", "90: 80">>,
               ok |-> FALSE, value |-> <<>>],
              [text |-> <<"..", "10: 1", "20: 1", "40: 1", "60: 1", "80: 1", "90: 1">>,
               ok |-> TRUE, value |-> <<1, 1, 1, 1, 1, 1>>] >>

\* PredictionExtractor.extract_*: the extraction contract applied to a reply.
Extractor(kind, reasoning) ==
    LET pool == ForecastReplies(kind)
    IN  pool[CHOOSE i \in 1..Len(pool) : pool[i].text = reasoning]

\* The pair returned in the other order.
CreateMessagesSwapped(q) ==
    << IF q.open_lower_bound THEN <<>>
       ELSE <<"The outcome can not be lower than", ToString(q.lower_bound)>>,
       IF q.open_upper_bound THEN <<>>
       ELSE <<"The outcome can not be higher than", ToString(q.upper_bound)>> >>

\* _create_upper_and_lower_bound_messages: (upper message, lower message).
CreateUpperAndLowerBoundMessages(q) ==
    << IF q.open_upper_bound THEN <<>>
       ELSE <<"The outcome can not be higher than", ToString(q.upper_bound)>>,
       IF q.open_lower_bound THEN <<>>
       ELSE <<"The outcome can not be lower than", ToString(q.lower_bound)>> >>

\* The two lines of the numeric prompt that take the bound messages:
\* {lower_bound_message} then {upper_bound_message}, after the pair is
\* unpacked as upper_bound_message, lower_bound_message.
BoundSlots(q) ==
    LET pair == CreateUpperAndLowerBoundMessages(q)
        upper_bound_message == pair[1]
        lower_bound_message == pair[2]
    IN  IF q.kind = "numeric"
        THEN [lower_slot |-> lower_bound_message, upper_slot |-> upper_bound_message]
        ELSE [lower_slot |-> <<>>, upper_slot |-> <<>>]

\* A call of the strategy for question q, not yet run.
Called(q) ==
    [pc          |-> "called",
     question    |-> q,
     invocations |-> 0,
     prompt      |-> [lower_slot |-> <<>>, upper_slot |-> <<>>],
     reply       |-> 0,
     reasoning   |-> <<>>,
     result      |-> [kind |-> "none"],
     log         |-> <<>>]

\* The strategy builds its prompt and awaits the reasoning model.
FcInvoke ==
    /\ fc.pc = "called"
    /\ fc' = [fc EXCEPT !.pc = "invoke",
                        !.prompt = BoundSlots(fc.question),
                        !.invocations = @ + 1]
    /\ UNCHANGED research_vars

\* The model call fails: the failure reaches the caller.
FcModelFail ==
    /\ fc.pc = "invoke"
    /\ fc' = [fc EXCEPT !.pc = "raised",
                        !.result = [kind |-> "error", error |-> "LlmError"]]
    /\ UNCHANGED research_vars

\* A failed extraction is turned into a default value.
FcReplyCoerced(i) ==
    /\ fc.pc = "invoke"
    /\ i \in 1..Len(ForecastReplies(fc.question.kind))
    /\ LET reasoning == ForecastReplies(fc.question.kind)[i].text
           got == Extractor(fc.question.kind, reasoning)
       IN  fc' = [fc EXCEPT
                    !.pc = "returned",
                    !.reply = i,
                    !.reasoning = reasoning,
                    !.log = Append(@, [level |-> "info", value |-> got.value,
                                       text |-> reasoning]),
                    !.result = [kind |-> "ReasonedPrediction",
                                prediction_value |-> got.value,
                                reasoning |-> reasoning]]
    /\ UNCHANGED research_vars

\* The model replies: the extractor is applied to the reply; when it fails its
\* failure reaches the caller at once, otherwise the prediction is logged with
\* the reasoning and returned with it.
FcReply(i) ==
    /\ fc.pc = "invoke"
    /\ i \in 1..Len(ForecastReplies(fc.question.kind))
    /\ LET reasoning == ForecastReplies(fc.question.kind)[i].text
           got == Extractor(fc.question.kind, reasoning)
       IN  IF got.ok
           THEN fc' = [fc EXCEPT
                         !.pc = "returned",
                         !.reply = i,
                         !.reasoning = reasoning,
                         !.log = Append(@, [level |-> "info", value |-> got.value,
                                            text |-> reasoning]),
                         !.result = [kind |-> "ReasonedPrediction",
                                     prediction_value |-> got.value,
                                     reasoning |-> reasoning]]
           ELSE fc' = [fc EXCEPT
                         !.pc = "raised",
                         !.reply = i,
                         !.reasoning = reasoning,
                         !.result = [kind |-> "error", error |-> "ExtractionError"]]
    /\ UNCHANGED research_vars

\* ------------------------------------------------------------ extraction

\* The extraction alone, on a reply already in hand.
Extract(t) ==
    /\ pc[t] = "reply"
    /\ key_factors' = [key_factors EXCEPT ![t] = ExtractKeyFactors(response[t])]
    /\ pc' = [pc EXCEPT ![t] = "extracted"]
    /\ UNCHANGED << fc, factor_ok, scenario, creds, sem, must_cancel, blocked_by, acquired,
                    released, given, response, idx, general_research, research,
                    inflight, searchlog, outcome, brief >>

\* ---------------------------------------------------------- specifications

InitCommon ==
    /\ sem = [value   |-> MaxConcurrentQuestions,
              waiters |-> <<>>,
              fut     |-> [t \in Tasks |-> "none"]]
    /\ must_cancel = [t \in Tasks |-> FALSE]
    /\ blocked_by = 0
    /\ acquired = [t \in Tasks |-> 0]
    /\ released = [t \in Tasks |-> 0]
    /\ key_factors = [t \in Tasks |-> <<>>]
    /\ idx = [t \in Tasks |-> 0]
    /\ general_research = [t \in Tasks |-> Unbound]
    /\ research = [t \in Tasks |-> Unbound]
    /\ inflight = [t \in Tasks |-> {}]
    /\ searchlog = [t \in Tasks |-> <<>>]
    /\ outcome = [t \in Tasks |-> "none"]
    /\ brief = [t \in Tasks |-> <<>>]
    /\ factor_ok = [t \in Tasks |-> <<>>]

\* Every question's run_research has been launched on the event loop.
Init ==
    /\ InitCommon
    /\ creds \in BOOLEAN
    /\ scenario = "concurrent"
    /\ fc = NoCall
    /\ pc = [t \in Tasks |-> "init"]
    /\ given = [t \in Tasks |-> <<>>]
    /\ response = [t \in Tasks |-> <<>>]

Research(t) ==
    \/ Start(t)
    \/ ResumeAcquire(t)
    \/ \E ids \in Shapes : KfReturn(t, ids)
    \/ KfFail(t)
    \/ GeneralReturn(t)
    \/ GeneralFail(t)
    \/ FactorReturn(t)
    \/ FactorFail(t)
    \/ SleepReturn(t)

Forecast(t) ==
    \/ StartForecast(t)
    \/ \E ok \in BOOLEAN : ForecastEnd(t, ok)

Pipeline(t) == Research(t) \/ Forecast(t)

Cancel(t) == CancelWaiting(t) \/ CancelInside(t)

Next == \E t \in Tasks : Pipeline(t) \/ Cancel(t)

Spec == Init /\ [][Next]_vars

\* The event loop runs every task that is ready, and every model or search
\* call in flight ends (with a result or a failure); cancellation is the
\* orchestrator's choice and is never forced.
Fairness == \A t \in Tasks : WF_vars(Research(t))

\* The research passes alone, each with a one-line reply.
InitGate ==
    /\ InitCommon
    /\ creds \in BOOLEAN
    /\ scenario = "gate"
    /\ fc = NoCall
    /\ pc = [t \in Tasks |-> "init"]
    /\ given = [t \in Tasks |-> <<>>]
    /\ response = [t \in Tasks |-> <<>>]

NextGate == \E t \in Tasks : Research(t) \/ Cancel(t)

FairSpec == InitGate /\ [][NextGate]_vars /\ Fairness

\* One question alone, with replies of one to six lines.
InitSolo ==
    /\ InitCommon
    /\ creds \in BOOLEAN
    /\ scenario = "solo"
    /\ fc = NoCall
    /\ pc = [t \in Tasks |-> IF t = 1 THEN "init" ELSE "off"]
    /\ given = [t \in Tasks |-> <<>>]
    /\ response = [t \in Tasks |-> <<>>]

NextSolo ==
    \/ Start(1)
    \/ \E ids \in Shapes : KfReturn(1, ids)
    \/ KfFail(1)
    \/ GeneralReturn(1)
    \/ GeneralFail(1)
    \/ FactorReturn(1)
    \/ FactorFail(1)
    \/ SleepReturn(1)
    \/ CancelInside(1)

SoloSpec == InitSolo /\ [][NextSolo]_vars

\* One call of a forecast strategy, for every question of the pool.
InitForecast ==
    /\ InitCommon
    /\ creds = TRUE
    /\ scenario = "forecast"
    /\ pc = [t \in Tasks |-> "off"]
    /\ given = [t \in Tasks |-> <<>>]
    /\ response = [t \in Tasks |-> <<>>]
    /\ \E q \in Questions : fc = Called(q)

NextForecast ==
    \/ FcInvoke
    \/ FcModelFail
    \/ \E i \in 1..Len(ForecastReplies(fc.question.kind)) : FcReply(i)

ForecastSpec == InitForecast /\ [][NextForecast]_vars

\* The extractor alone, on every reply of the pool.
InitExtract ==
    /\ InitCommon
    /\ creds = TRUE
    /\ scenario = "extract"
    /\ fc = NoCall
    /\ pc = [t \in Tasks |-> IF t = 1 THEN "reply" ELSE "off"]
    /\ \E ids \in ReplyShapes :
          /\ given = [t \in Tasks |-> IF t = 1 THEN ids ELSE <<>>]
          /\ response = [t \in Tasks |-> IF t = 1 THEN JoinLines(ids) ELSE <<>>]

NextExtract == Extract(1)

ExtractSpec == InitExtract /\ [][NextExtract]_vars

\* ------------------------------------------------------------------ claims

InsideNow == {t \in Tasks : Inside(t)}

\* run_research has been left, by return or by an exception.
Left(t) == pc[t] \in {"research_done", "forecast_invoke", "done", "forecast_failed", "failed"}

\* C1: in every reachable state at most K = 2 run_research calls are inside the
\* block guarded by the semaphore, however many were launched.
C1_AtMostKInside == Cardinality(InsideNow) <= MaxConcurrentQuestions

\* K calls are inside and a further call waits in acquire().
C1_Witness ==
    /\ Cardinality(InsideNow) = MaxConcurrentQuestions
    /\ \E t \in Tasks : pc[t] = "acquiring" /\ sem.fut[t] = "pending"

\* C2: at any instant at most K = 2 questions are in their research step or in
\* their forecast step, i.e. a forecast-model call only runs on a gate slot.
C2_PipelinesBounded ==
    Cardinality({t \in Tasks : Inside(t) \/ pc[t] = "forecast_invoke"})
        <= MaxConcurrentQuestions

\* C3: a call that acquired a slot releases it exactly once on every way out of
\* the block (return, model failure, search failure, any other error,
\* cancellation), never before, and once every call has left the semaphore
\* has all K slots free and nobody queued.
C3_ReleasedExactlyOnce ==
    /\ \A t \in Tasks :
          /\ acquired[t] <= 1
          /\ released[t] <= acquired[t]
          /\ Inside(t) => acquired[t] = 1 /\ released[t] = 0
          /\ Left(t) => released[t] = acquired[t]
    /\ (\A t \in Tasks : Left(t)) =>
          /\ sem.value = MaxConcurrentQuestions
          /\ sem.waiters = <<>>

\* Every call has left: one returned its brief, one was cancelled inside the
\* block, one failed at the general search.
C3_Witness ==
    /\ \A t \in Tasks : Left(t)
    /\ \E a, b, c \in Tasks :
          /\ outcome[a] = "brief"
          /\ outcome[b] = "CancelledError" /\ acquired[b] = 1
          /\ outcome[c] = "SearchError"

\* C4: without both search credentials run_research issues no search and
\* still returns a brief (when the model call itself succeeded and nobody
\* cancelled the call).
C4_NoCredentialsStillReturns ==
    \A t \in Tasks :
        (~creds /\ Left(t) /\ outcome[t] \notin {"LlmError", "CancelledError"})
            => (searchlog[t] = <<>> /\ outcome[t] = "brief")

\* C5: once the general search has succeeded, a call that is not cancelled
\* ends by returning a brief that contains the general search result,
\* whichever factor searches failed.
C5_GeneralResultInBrief ==
    \A t \in Tasks :
        (general_research[t].bound /\ Left(t) /\ outcome[t] # "CancelledError")
            => /\ outcome[t] = "brief"
               /\ Contains(brief[t], News(QuestionText(t)))

\* A brief returned after all of five factor searches failed.
C5_Witness ==
    /\ outcome[1] = "brief"
    /\ Len(key_factors[1]) = FactorSlice
    /\ research[1] = Bound(<<>>)
    /\ Len(searchlog[1]) = FactorSlice + 1

\* The last n of the lines a reply was assembled from.
LastGiven(t, n) == SubSeq(given[t], Len(given[t]) - n + 1, Len(given[t]))

AllWellFormed(ids) == \A i \in 1..Len(ids) : LinePool[ids[i]].kind = "wf"

QueriesOf(ids) == [i \in 1..Len(ids) |-> LinePool[ids[i]].query]

\* C6: the key factors are the queries of the LAST five lines of the reply,
\* whenever those five lines are well-formed `Label :=> query` lines.
C6_LastFiveLines ==
    (/\ pc[1] = "extracted"
     /\ Len(given[1]) >= FactorSlice
     /\ AllWellFormed(LastGiven(1, FactorSlice)))
        => key_factors[1] = QueriesOf(LastGiven(1, FactorSlice))

\* C7: never more than five factors and never padding: fewer than five lines
\* give as many factors as lines, a reply of three well-formed lines gives
\* exactly their three queries, and a line without the delimiter gives the
\* whole line, trimmed.
C7_NoPaddingNoExcess ==
    pc[1] = "extracted" =>
        /\ Len(key_factors[1]) <= FactorSlice
        /\ Len(key_factors[1]) <= Len(given[1])
        /\ Len(given[1]) < FactorSlice => Len(key_factors[1]) = Len(given[1])
        /\ (Len(given[1]) = 3 /\ AllWellFormed(given[1]))
              => key_factors[1] = QueriesOf(given[1])
        /\ \A i \in 1..Len(key_factors[1]) :
              LinePool[given[1][i]].kind = "plain"
                  => key_factors[1][i] = LinePool[given[1][i]].query

\* Three factors extracted from a reply of three well-formed lines.
C7_Witness ==
    /\ pc[1] = "extracted"
    /\ Len(given[1]) = 3
    /\ AllWellFormed(given[1])
    /\ Len(key_factors[1]) = 3

\* C8: under fair scheduling, with every call inside the block leaving it in
\* the end, a call that waits in acquire() is eventually admitted to the block,
\* unless the orchestrator cancels it while it waits.
C8_NoStarvation ==
    \A t \in Tasks :
        (pc[t] = "acquiring") ~> (acquired[t] = 1 \/ outcome[t] = "CancelledError")

\* A release has handed the slot to the first waiter, which has not been
\* cancelled and is about to enter the block.
C8_Witness ==
    \E t \in Tasks :
        /\ pc[t] = "acquiring"
        /\ sem.fut[t] = "result"
        /\ ~must_cancel[t]
        /\ sem.waiters[1] = t
        /\ released # [u \in Tasks |-> 0]

\* C9: within one pass the searches go out one at a time in a fixed order:
\* the general search on the question text first, completed before any factor
\* search, then the factors in extraction order, never two in flight.
C9_SequentialSearches ==
    \A t \in Tasks :
        /\ Cardinality(inflight[t]) <= 1
        /\ Len(searchlog[t]) <= Len(key_factors[t]) + 1
        /\ \A i \in 1..Len(searchlog[t]) :
              searchlog[t][i] = IF i = 1 THEN QuestionText(t) ELSE key_factors[t][i - 1]
        /\ Len(searchlog[t]) >= 2 => general_research[t].bound /\ 0 \notin inflight[t]
        /\ inflight[t] \subseteq {Len(searchlog[t]) - 1}

\* The fifth factor's search is in flight after the general search and four
\* factor searches.
C9_Witness ==
    /\ pc[1] = "factor_search"
    /\ inflight[1] = {FactorSlice}
    /\ Len(searchlog[1]) = FactorSlice + 1

\* A task with a step ready to run on the event loop.
Ready(u) ==
    \/ pc[u] \in {"init", "research_done"}
    \/ pc[u] = "acquiring" /\ sem.fut[u] \in {"result", "cancelled"}

\* C10: while one pipeline is in its pacing delay, every other task that is
\* ready to run can take a step.
C10_DelayYields ==
    \A t, u \in Tasks :
        (pc[t] = "sleeping" /\ u # t /\ Ready(u)) => ENABLED Pipeline(u)

\* C13: a failure of the key-factor model call ends run_research with that
\* failure: no brief, no key factors, and no search is ever issued for the pass.
C13_ModelFailureIsFatal ==
    /\ [][\A t \in Tasks : KfFail(t) =>
              /\ outcome'[t] = "LlmError"
              /\ pc'[t] = "failed"
              /\ released'[t] = released[t] + 1]_vars
    /\ [](\A t \in Tasks : outcome[t] = "LlmError" =>
              /\ pc[t] = "failed"
              /\ brief[t] = <<>>
              /\ searchlog[t] = <<>>
              /\ inflight[t] = {})

\* A pass that ended with the model call's failure.
C13_Witness == outcome[1] = "LlmError" /\ creds

\* The blocks of the factors whose search returned, in order.
RECURSIVE BlocksOf(_, _, _)
BlocksOf(factors, oks, i) ==
    IF i > Len(oks) THEN <<>>
    ELSE (IF oks[i] THEN FactorBlock(factors[i], News(factors[i])) ELSE <<>>)
         \o BlocksOf(factors, oks, i + 1)

\* C14: the per-factor part of the brief is one `Research on '<factor>':`
\* block per factor whose search returned, in extraction order, and nothing
\* for a factor whose search failed; after a failure the loop goes on to the
\* remaining factors.
C14_BlocksOfSucceededFactors ==
    \A t \in Tasks :
        /\ research[t].bound =>
              research[t].text = BlocksOf(key_factors[t], factor_ok[t], 1)
        /\ outcome[t] = "brief" =>
              /\ Len(factor_ok[t]) = Len(key_factors[t])
              /\ brief[t] = FullResearch(t, News(QuestionText(t)),
                                         BlocksOf(key_factors[t], factor_ok[t], 1))
        /\ (Left(t) /\ outcome[t] # "CancelledError" /\ Len(factor_ok[t]) > 0)
              => outcome[t] = "brief"

\* A brief of five factors, the first and third of which failed.
C14_Witness ==
    /\ outcome[1] = "brief"
    /\ factor_ok[1] = <<FALSE, TRUE, FALSE, TRUE, TRUE>>

\* C16: with credentials present, a failure of the general search ends
\* run_research with that failure: no factor search is issued, no brief is
\* returned, and the slot is released.
C16_GeneralFailureIsFatal ==
    /\ [][\A t \in Tasks : GeneralFail(t) =>
              /\ outcome'[t] = "SearchError"
              /\ pc'[t] = "failed"
              /\ released'[t] = released[t] + 1]_vars
    /\ [](\A t \in Tasks : outcome[t] = "SearchError" =>
              /\ creds
              /\ pc[t] = "failed"
              /\ brief[t] = <<>>
              /\ searchlog[t] = <<QuestionText(t)>>
              /\ factor_ok[t] = <<>>
              /\ inflight[t] = {}
              /\ released[t] = 1
              /\ ~Inside(t))

\* A pass that ended with the general search's failure, its slot free again.
C16_Witness ==
    /\ outcome[1] = "SearchError"
    /\ sem.value = MaxConcurrentQuestions

\* The reply the call received, as the pool describes it.
ReplyInHand == ForecastReplies(fc.question.kind)[fc.reply]

\* C11: a strategy invokes the reasoning model exactly once per call; on
\* success it returns the extractor's value paired with the whole, unmodified
\* reply; when the model call or the extraction fails, the failure reaches the
\* caller and no prediction, default or otherwise, is returned.
C11_OneInvocationFaithfulResult ==
    fc.pc # "idle" =>
        /\ fc.pc = "called" => fc.invocations = 0
        /\ fc.pc \in {"invoke", "returned", "raised"} => fc.invocations = 1
        /\ fc.pc = "returned" =>
              /\ ReplyInHand.ok
              /\ fc.result = [kind             |-> "ReasonedPrediction",
                              prediction_value |-> ReplyInHand.value,
                              reasoning        |-> ReplyInHand.text]
        /\ fc.pc = "raised" =>
              /\ fc.result.kind = "error"
              /\ fc.reply = 0 => fc.result.error = "LlmError"
              /\ fc.reply # 0 => ~ReplyInHand.ok /\ fc.result.error = "ExtractionError"

\* A multiple-choice call whose reply misses an option line has raised.
C11_Witness ==
    /\ fc.pc = "raised"
    /\ fc.question.kind = "multiple_choice"
    /\ fc.reply # 0
    /\ fc.invocations = 1

\* C12: the lower-bound message is empty exactly when the lower bound is open
\* and otherwise names the lower bound, likewise the upper one; each depends
\* on its own bound and flag only; and the numeric prompt carries the lower
\* message in the lower slot and the upper message in the upper slot.
C12_BoundMessagesInTheirSlots ==
    (fc.pc \in {"invoke", "returned", "raised"} /\ fc.question.kind = "numeric") =>
        LET q == fc.question
        IN  /\ fc.prompt.lower_slot = <<>> <=> q.open_lower_bound
            /\ fc.prompt.upper_slot = <<>> <=> q.open_upper_bound
            /\ ~q.open_lower_bound =>
                  fc.prompt.lower_slot =
                      <<"The outcome can not be lower than", ToString(q.lower_bound)>>
            /\ ~q.open_upper_bound =>
                  fc.prompt.upper_slot =
                      <<"The outcome can not be higher than", ToString(q.upper_bound)>>

\* Open lower bound, upper bound closed at 1000: no lower message, an upper
\* message naming 1000.
C12_Witness ==
    /\ fc.pc = "invoke"
    /\ fc.question.kind = "numeric"
    /\ fc.question.open_lower_bound
    /\ ~fc.question.open_upper_bound
    /\ fc.question.upper_bound = 1000
    /\ fc.prompt.lower_slot = <<>>
    /\ fc.prompt.upper_slot = <<"The outcome can not be higher than", "1000">>

\* C15: when a strategy fails with a reply in hand (the extraction failed), a
\* log event carrying the whole reply was emitted before the failure left.
C15_FailureLoggedWithReasoning ==
    (fc.pc = "raised" /\ fc.reply # 0) =>
        \E i \in 1..Len(fc.log) : fc.log[i].text = fc.reasoning

====
